---- MODULE Spec2Model ----
(***************************************************************************)
(* cmd-nse-vfio: the per-service configuration decoder                     *)
(* (internal/config), the "network service -> { MAC, VLAN }" chain element *)
(* (internal/networkservice/mapserver) and the start-up sequence of main.  *)
(*                                                                         *)
(* Text is a sequence of one-character strings, so that Split, TrimSpace,  *)
(* ParseMAC and HardwareAddr.String are computed character by character.   *)
(*                                                                         *)
(* Three specifications share the module:                                  *)
(*   SpecDecode  one descriptor text is handed to UnmarshalBinary;         *)
(*   Spec        main() from the environment to the final wait;            *)
(*   SpecServe   the gRPC handlers Request and Close of a constructed      *)
(*               mapServer, statement by statement, two calls in flight.   *)
(***************************************************************************)
EXTENDS Integers, Sequences, FiniteSets, TLC

VARIABLES
    \* ---- SpecDecode
    text,        \* the bytes handed to UnmarshalBinary
    dpc,         \* "input" | "decoded"
    res,         \* [err, s]: the returned error and the receiver *s afterwards
    \* ---- Spec (main)
    env,         \* NSM_SERVICE_NAMES, already split into descriptors
    registerService, \* NSM_REGISTER_SERVICE as Process stores it in cfg.RegisterService
    mpc,         \* main's position
    cfg,         \* cfg.Services once Process has returned, Nil before
    entries,     \* mapServer.entries once NewServer has returned, Nil before
    installed,   \* the map server is an element of the endpoint's chain
    listening,   \* grpcutils.ListenAndServe has been called
    errCh,       \* number of errors pending on srvErrCh
    chClosed,    \* srvErrCh has been closed by the stopped server
    served,      \* the server has delivered its (single) error
    gpc,         \* exitOnErr's goroutine: "none" | "recv" | "cancel" | "end"
    ctxDone,     \* the root context is cancelled
    nsRegistered,  \* names passed to nsRegistryClient.Register, in order
    nseRegistered, \* the endpoint was registered
    \* ---- SpecServe (handlers)
    rpc,         \* rpc[p]: position of handler p
    op,          \* op[p]: "none" | "Request" | "Close"
    conn,        \* conn[p]: the connection object of p's call
    conn0,       \* conn[p] as it was when the call began
    connAtNext,  \* conn[p] as it was when the next stage was invoked
    entry,       \* entry[p]: the local variable entry of Request
    result,      \* result[p]: what the call returned
    nextResult,  \* nextResult[p]: what the next stage returned
    nextCalls,   \* nextCalls[p]: [Request, Close] invocations of the next stage
    reads,       \* reads[p]: locations p's call has read
    writes,      \* writes[p]: locations p's call has written
    concurrent   \* concurrent[p]: handlers in flight at some time during p's call

decodeVars == <<text, dpc, res>>
mainVars == <<env, registerService, mpc, cfg, entries, installed, listening, errCh, chClosed, served, gpc,
              ctxDone, nsRegistered, nseRegistered>>
serveVars == <<rpc, op, conn, conn0, connAtNext, entry, result, nextResult,
               nextCalls, reads, writes, concurrent>>
vars == <<text, dpc, res, env, registerService, mpc, cfg, entries, installed, listening, errCh,
          chClosed, served, gpc, ctxDone, nsRegistered, nseRegistered, rpc, op, conn,
          conn0, connAtNext, entry, result, nextResult, nextCalls, reads,
          writes, concurrent>>

\* a nil pointer, a nil map, a value not yet set
Nil == [nil |-> TRUE]
NoError == [kind |-> "nil"]

(***************************************************************************)
(* package strings                                                         *)
(***************************************************************************)
IsSpace(c) == c \in {" ", "\t", "\n", "\r"}

RECURSIVE TrimLeft(_)
TrimLeft(s) ==
    IF s # <<>> /\ IsSpace(Head(s)) THEN TrimLeft(Tail(s)) ELSE s

RECURSIVE TrimRight(_)
TrimRight(s) ==
    IF s # <<>> /\ IsSpace(s[Len(s)]) THEN TrimRight(SubSeq(s, 1, Len(s) - 1)) ELSE s

TrimSpace(s) == TrimRight(TrimLeft(s))

\* index of the first occurrence of the character sep in s, 0 when absent
Index(s, sep) ==
    IF \E i \in 1..Len(s) : s[i] = sep
    THEN CHOOSE i \in 1..Len(s) : s[i] = sep /\ \A j \in 1..(i - 1) : s[j] # sep
    ELSE 0

\* strings.Split(s, sep) for a one-character separator: n+1 pieces for n separators
RECURSIVE Split(_, _)
SplitAt(s, sep, i) ==
    IF i = 0 THEN <<s>>
    ELSE <<SubSeq(s, 1, i - 1)>> \o Split(SubSeq(s, i + 1, Len(s)), sep)
Split(s, sep) == SplitAt(s, sep, Index(s, sep))

HasPrefix(s, prefix) ==
    Len(s) >= Len(prefix) /\ SubSeq(s, 1, Len(prefix)) = prefix

TrimPrefix(s, prefix) ==
    IF HasPrefix(s, prefix) THEN SubSeq(s, Len(prefix) + 1, Len(s)) ELSE s

(***************************************************************************)
(* package net: ParseMAC and HardwareAddr.String                           *)
(***************************************************************************)
HexDigits == <<"0", "1", "2", "3", "4", "5", "6", "7", "8", "9",
               "a", "b", "c", "d", "e", "f">>
UpperHex == <<"0", "1", "2", "3", "4", "5", "6", "7", "8", "9",
              "A", "B", "C", "D", "E", "F">>

IsHex(c) == \E i \in 1..16 : HexDigits[i] = c \/ UpperHex[i] = c
HexVal(c) == (CHOOSE i \in 1..16 : HexDigits[i] = c \/ UpperHex[i] = c) - 1

\* xtoi2(s, e): two hex digits, then (if anything follows) the separator e.
\* e = "" stands for the 0 byte the dotted form passes: nothing may follow.
xtoi2ok(s, e) ==
    /\ Len(s) >= 2
    /\ IsHex(s[1]) /\ IsHex(s[2])
    /\ (Len(s) > 2 => s[3] = e)
xtoi2val(s) == 16 * HexVal(s[1]) + HexVal(s[2])

\* the colon/dash form: n groups of "xx", separated by s[3]
MACGroupsOK(s, n) ==
    \A i \in 0..(n - 1) : xtoi2ok(SubSeq(s, 3 * i + 1, Len(s)), s[3])
MACGroups(s, n) == [i \in 1..n |-> xtoi2val(SubSeq(s, 3 * (i - 1) + 1, Len(s)))]

\* the dotted form: n/2 groups of "xxxx", separated by "."
MACDottedOK(s, n) ==
    \A k \in 0..((n \div 2) - 1) :
        /\ xtoi2ok(SubSeq(s, 5 * k + 1, 5 * k + 2), "")
        /\ xtoi2ok(SubSeq(s, 5 * k + 3, Len(s)), s[5])
MACDotted(s, n) ==
    [i \in 1..n |->
        LET k == (i - 1) \div 2
        IN  IF (i - 1) % 2 = 0
            THEN xtoi2val(SubSeq(s, 5 * k + 1, 5 * k + 2))
            ELSE xtoi2val(SubSeq(s, 5 * k + 3, Len(s)))]

MACError(s) == [kind |-> "invalid MAC address", text |-> s]

\* the two forms of ParseMAC, n being the number of bytes the length gives
ParseMACGroups(s, n) ==
    IF (Len(s) + 1) % 3 # 0 \/ n \notin {6, 8, 20} \/ ~MACGroupsOK(s, n)
    THEN [err |-> MACError(s), hw |-> <<>>]
    ELSE [err |-> NoError, hw |-> MACGroups(s, n)]
ParseMACDotted(s, n) ==
    IF (Len(s) + 1) % 5 # 0 \/ n \notin {6, 8, 20} \/ ~MACDottedOK(s, n)
    THEN [err |-> MACError(s), hw |-> <<>>]
    ELSE [err |-> NoError, hw |-> MACDotted(s, n)]

\* net.ParseMAC(s): [err, hw]
ParseMAC(s) ==
    IF Len(s) < 14 THEN [err |-> MACError(s), hw |-> <<>>]
    ELSE IF s[3] = ":" \/ s[3] = "-" THEN ParseMACGroups(s, (Len(s) + 1) \div 3)
    ELSE IF s[5] = "." THEN ParseMACDotted(s, (2 * (Len(s) + 1)) \div 5)
    ELSE [err |-> MACError(s), hw |-> <<>>]

\* HardwareAddr.String(): lower-case hex pairs joined by ":", "" for no bytes
RECURSIVE String(_)
String(hw) ==
    IF hw = <<>> THEN <<>>
    ELSE <<HexDigits[(Head(hw) \div 16) + 1], HexDigits[(Head(hw) % 16) + 1]>>
            \o (IF Len(hw) = 1 THEN <<>> ELSE <<":">> \o String(Tail(hw)))

(***************************************************************************)
(* package strconv: ParseInt(s, 0, 32)                                     *)
(* TLC's integers are 32 bits wide, so the magnitude is accumulated as a   *)
(* number below 2^31, or as "cutoff" (exactly 2^31) or "over" (above it).  *)
(* The descriptor alphabet holds no "_", which ParseInt would skip.        *)
(***************************************************************************)
MaxInt32 == 2147483647

Lower(c) ==
    IF \E i \in 11..16 : UpperHex[i] = c
    THEN HexDigits[CHOOSE i \in 11..16 : UpperHex[i] = c]
    ELSE IF c = "X" THEN "x" ELSE IF c = "O" THEN "o" ELSE c

SyntaxError(s) == [kind |-> "invalid syntax", text |-> s]
RangeError(s) == [kind |-> "value out of range", text |-> s]

\* base 0: the prefix selects the base; [base, digits]
BasePrefix(s) ==
    IF s # <<>> /\ s[1] = "0"
    THEN IF Len(s) >= 3 /\ Lower(s[2]) = "b" THEN [base |-> 2, digits |-> SubSeq(s, 3, Len(s))]
         ELSE IF Len(s) >= 3 /\ Lower(s[2]) = "o" THEN [base |-> 8, digits |-> SubSeq(s, 3, Len(s))]
         ELSE IF Len(s) >= 3 /\ Lower(s[2]) = "x" THEN [base |-> 16, digits |-> SubSeq(s, 3, Len(s))]
         ELSE [base |-> 8, digits |-> Tail(s)]
    ELSE [base |-> 10, digits |-> s]

DigitsOK(digits, base) ==
    \A i \in 1..Len(digits) : IsHex(digits[i]) /\ HexVal(digits[i]) < base

\* acc is [k, n]: k = "n" (the number n), "cutoff" (2^31) or "over" (above 2^31)
AddDigit(acc, d, base) ==
    IF acc.k # "n" THEN [k |-> "over", n |-> 0]
    ELSE IF acc.n <= (MaxInt32 - d) \div base THEN [k |-> "n", n |-> acc.n * base + d]
    ELSE IF d >= 1 /\ acc.n <= (MaxInt32 - (d - 1)) \div base
                   /\ acc.n * base + (d - 1) = MaxInt32 THEN [k |-> "cutoff", n |-> 0]
    ELSE [k |-> "over", n |-> 0]

RECURSIVE Magnitude(_, _, _)
Magnitude(digits, base, acc) ==
    IF digits = <<>> THEN acc
    ELSE Magnitude(Tail(digits), base, AddDigit(acc, HexVal(Head(digits)), base))

\* ParseInt's range check of the magnitude un for 32 bits
ParseIntRange(s, neg, un) ==
    IF un.k = "over" \/ (un.k = "cutoff" /\ ~neg)
    THEN [err |-> RangeError(s), i |-> IF neg THEN -MaxInt32 - 1 ELSE MaxInt32]
    ELSE IF un.k = "cutoff" THEN [err |-> NoError, i |-> -MaxInt32 - 1]
    ELSE [err |-> NoError, i |-> IF neg THEN -un.n ELSE un.n]

\* strconv.ParseUint(u, 0, 64) on the text after the sign, bp its base and digits
ParseUintBase(s, neg, u, bp) ==
    IF u = <<>> \/ ~DigitsOK(bp.digits, bp.base)
    THEN [err |-> SyntaxError(s), i |-> 0]
    ELSE ParseIntRange(s, neg, Magnitude(bp.digits, bp.base, [k |-> "n", n |-> 0]))

ParseIntSigned(s, neg, u) == ParseUintBase(s, neg, u, BasePrefix(u))

\* strconv.ParseInt(s, 0, 32)
ParseInt(s) ==
    IF s = <<>> THEN [err |-> SyntaxError(s), i |-> 0]
    ELSE ParseIntSigned(s, s[1] = "-", IF s[1] \in {"+", "-"} THEN Tail(s) ELSE s)

(***************************************************************************)
(* package config: ServiceConfig and its decoder                           *)
(***************************************************************************)
addrPrefix == <<"a", "d", "d", "r", ":">>
vlanPrefix == <<"v", "l", "a", "n", ":">>

\* the zero value of the struct ServiceConfig { Name, MACAddr, VLANTag }
ServiceConfig == [Name |-> <<>>, MACAddr |-> <<>>, VLANTag |-> 0]

trimPrefix(s, prefix) == TrimSpace(TrimPrefix(s, prefix))

\* return 0, err / return int32(i), nil
parseInt32Result(r) ==
    IF r.err # NoError THEN [err |-> r.err, i |-> 0] ELSE [err |-> NoError, i |-> r.i]

parseInt32(s) == parseInt32Result(ParseInt(s))

validate(s) ==
    IF s.Name = <<>> THEN [kind |-> "name is empty"] ELSE NoError

InvalidFormat(t) == [kind |-> "invalid format", text |-> t]

\* s.MACAddr, err = ...   and   s.VLANTag, err = ...
SetMACAddr(s, r) == [err |-> r.err, s |-> [s EXCEPT !.MACAddr = r.hw]]
SetVLANTag(s, r) == [err |-> r.err, s |-> [s EXCEPT !.VLANTag = r.i]]

\* the switch on the trimmed part: [err, s]
DecodeTrimmed(part, s, t) ==
    IF HasPrefix(part, addrPrefix)
    THEN SetMACAddr(s, ParseMAC(trimPrefix(part, addrPrefix)))
    ELSE IF HasPrefix(part, vlanPrefix)
    THEN SetVLANTag(s, parseInt32(trimPrefix(part, vlanPrefix)))
    ELSE [err |-> InvalidFormat(t), s |-> s]

\* one iteration of the loop over the ";"-separated parts: [err, s]
DecodePart(rawPart, s, t) == DecodeTrimmed(TrimSpace(rawPart), s, t)

\* the loop: stops at the first part that fails (r is the last iteration's result)
RECURSIVE DecodeParts(_, _, _)
DecodeRest(rest, r, t) ==
    IF r.err # NoError THEN r ELSE DecodeParts(rest, r.s, t)
DecodeParts(parts, s, t) ==
    IF parts = <<>> THEN [err |-> NoError, s |-> s]
    ELSE DecodeRest(Tail(parts), DecodePart(Head(parts), s, t), t)

\* return s.validate()
Validated(r) == IF r.err # NoError THEN r ELSE [err |-> validate(r.s), s |-> r.s]

\* UnmarshalBinary after s.Name is set: split is strings.Split(text, "{")
DecodeBody(t, s, split) ==
    IF Len(split) < 2 THEN [err |-> validate(s), s |-> s]
    ELSE Validated(DecodeParts(Split(Split(split[2], "}")[1], ";"), s, t))

\* (s *ServiceConfig) UnmarshalBinary(bytes), s being the zero value:
\* [err, s] with s the receiver as the call leaves it
UnmarshalBinary(bytes) ==
    DecodeBody(bytes, [ServiceConfig EXCEPT !.Name = TrimSpace(Split(bytes, ":")[1])],
               Split(bytes, "{"))

(***************************************************************************)
(* Descriptor texts                                                        *)
(***************************************************************************)
MaxFields == 2

RECURSIVE Join(_, _)
Join(list, sep) ==
    IF list = <<>> THEN <<>>
    ELSE IF Len(list) = 1 THEN list[1]
    ELSE list[1] \o sep \o Join(Tail(list), sep)

MacText == <<"0", "a", ":", "5", "5", ":", "4", "4", ":", "3", "3", ":", "2", "2", ":", "1", "1">>
MacBytes == <<10, 85, 68, 51, 34, 17>>
MacTextDash == <<"0", "A", "-", "5", "5", "-", "4", "4", "-", "3", "3", "-", "2", "2", "-", "1", "F">>
MacTextDot == <<"0", "a", "5", "5", ".", "4", "4", "3", "3", ".", "2", "2", "1", "1">>
MacTextBad == <<"0", "a", ":", "5", "5", ":", "4", "4", ":", "3", "3", ":", "2", "2", ":", "1", "g">>

AddrField(m) == <<" ">> \o addrPrefix \o <<" ">> \o m \o <<" ">>
VlanField(v) == <<" ">> \o vlanPrefix \o <<" ">> \o v
FooField == <<" ", "f", "o", "o", ":", " ", "b", "a", "r", " ">>

\* ' labels: a=b' and ' payload: IP ' (README: 'labels: Labels', NSM_PAYLOAD)
LabelsField == <<" ", "l", "a", "b", "e", "l", "s", ":", " ", "a", "=", "b">>
PayloadField == <<" ", "p", "a", "y", "l", "o", "a", "d", ":", " ", "I", "P", " ">>

FieldTexts ==
    { AddrField(MacText), AddrField(MacTextDash), AddrField(MacTextDot),
      AddrField(MacTextBad), VlanField(<<"5">>), VlanField(<<"0", "x", "1", "0">>),
      VlanField(<<"x">>), FooField, LabelsField, PayloadField, <<>> }

FieldLists == UNION { [1..n -> FieldTexts] : n \in 1..MaxFields }

NameTexts == { <<>>, <<"p">>, <<" ", "q", "q", " ">> }
DomainTexts == { <<>>, <<"@">>, <<"@", "d">> }
Heads == { n \o d \o <<":", " ">> : n \in NameTexts, d \in DomainTexts }

Bodies ==
    { <<>> } \cup
    { <<"{">> \o Join(fl, <<";">>) \o close : fl \in FieldLists, close \in { <<"}">>, <<>> } }

\* 'pingpong@worker.domain: { addr: 0a:55:44:33:22:11 }' (README, config_test.go)
PingPongName == <<"p", "i", "n", "g", "p", "o", "n", "g">>
WorkerDomain == <<"w", "o", "r", "k", "e", "r", ".", "d", "o", "m", "a", "i", "n">>
WellFormed(name, domain, m) ==
    name \o <<"@">> \o domain \o <<":", " ", "{", " ">> \o addrPrefix \o <<" ">> \o m \o <<" ", "}">>
PingPongText == WellFormed(PingPongName, WorkerDomain, MacText)
\* 'svc@d: { vlan: 5 }'
SvcVlanText ==
    <<"s", "v", "c", "@", "d", ":", " ", "{", " ">> \o vlanPrefix \o <<" ", "5", " ", "}">>
\* 'svc@d: { vlan: 2147483648 }' and 'svc@d: { vlan: -2147483648 }'
SvcVlanRangeText ==
    <<"s", "v", "c", "@", "d", ":", " ", "{", " ">> \o vlanPrefix
        \o <<"2", "1", "4", "7", "4", "8", "3", "6", "4", "8", "}">>
SvcVlanMinText ==
    <<"s", "v", "c", "@", "d", ":", " ", "{", " ">> \o vlanPrefix
        \o <<"-", "2", "1", "4", "7", "4", "8", "3", "6", "4", "8", "}">>

Texts ==
    { h \o b : h \in Heads, b \in Bodies }
        \cup { WellFormed(n, <<"d">>, m) : n \in {<<"p">>, PingPongName}, m \in {MacText, MacTextDash, MacTextDot} }
        \cup { PingPongText, SvcVlanText, SvcVlanRangeText, SvcVlanMinText }

(***************************************************************************)
(* SpecDecode: one descriptor text, decoded once                           *)
(***************************************************************************)
Procs == {"h1", "h2"}

ParkDecode == text = <<>> /\ dpc = "off" /\ res = Nil
ParkMain ==
    /\ env = <<>> /\ registerService = TRUE
    /\ mpc = "off" /\ cfg = Nil /\ installed = FALSE
    /\ listening = FALSE /\ errCh = 0 /\ chClosed = FALSE /\ served = FALSE /\ gpc = "none"
    /\ ctxDone = FALSE /\ nsRegistered = <<>> /\ nseRegistered = FALSE
ParkServe ==
    /\ rpc = [p \in Procs |-> "off"]
    /\ op = [p \in Procs |-> "none"]
    /\ conn = [p \in Procs |-> Nil]
    /\ conn0 = [p \in Procs |-> Nil]
    /\ connAtNext = [p \in Procs |-> Nil]
    /\ entry = [p \in Procs |-> Nil]
    /\ result = [p \in Procs |-> Nil]
    /\ nextResult = [p \in Procs |-> Nil]
    /\ nextCalls = [p \in Procs |-> [Request |-> 0, Close |-> 0]]
    /\ reads = [p \in Procs |-> {}]
    /\ writes = [p \in Procs |-> {}]
    /\ concurrent = [p \in Procs |-> {}]

InitDecode ==
    /\ text \in Texts
    /\ dpc = "input"
    /\ res = Nil
    /\ ParkMain /\ entries = Nil /\ ParkServe

\* envconfig hands the bytes of one descriptor to a zero ServiceConfig
Unmarshal ==
    /\ dpc = "input"
    /\ res' = UnmarshalBinary(text)
    /\ dpc' = "decoded"
    /\ UNCHANGED <<text, mainVars, serveVars>>

NextDecode == Unmarshal

SpecDecode == InitDecode /\ [][NextDecode]_vars

(***************************************************************************)
(* Claims about the decoder (SpecDecode)                                   *)
(***************************************************************************)
\* a field the struct does not declare reads as empty
Field(s, f) == IF f \in DOMAIN s THEN s[f] ELSE <<>>
DefaultPayload == <<"E", "T", "H", "E", "R", "N", "E", "T">>

\* the well-formed descriptors 'name@domain: { addr: M }' among Texts, with
\* the bytes of M written out
WellFormedCases ==
    { [name |-> n, domain |-> d, mac |-> m[1], bytes |-> m[2]] :
        n \in {<<"p">>, PingPongName}, d \in {<<"d">>, WorkerDomain},
        m \in { <<MacText, MacBytes>>, <<MacTextDash, <<10, 85, 68, 51, 34, 31>> >>,
                <<MacTextDot, MacBytes>> } }

\* C7: decoding a well-formed 'name@domain: { addr: M }' succeeds with the
\* name before the '@', the domain between '@' and ':', the MAC M, VLAN 0,
\* the default payload and no labels; 'pingpong@worker.domain: {...}' gives
\* name 'pingpong' and domain 'worker.domain'.
C7_WellFormedDecodes ==
    dpc = "decoded" =>
        \A c \in WellFormedCases :
            text = WellFormed(c.name, c.domain, c.mac) =>
                /\ res.err = NoError
                /\ res.s.Name = c.name
                /\ Field(res.s, "Domain") = c.domain
                /\ res.s.MACAddr = c.bytes
                /\ res.s.VLANTag = 0
                /\ Field(res.s, "Payload") = DefaultPayload
                /\ Field(res.s, "Labels") = <<>>

\* C8: decoding a text without '{' returns an 'invalid format' error,
\* whatever the rest of the text is.
C8_NoBraceIsInvalidFormat ==
    (dpc = "decoded" /\ Index(text, "{") = 0) => res.err.kind = "invalid format"

\* C9: whenever UnmarshalBinary succeeds, the entry has a non-empty name, a
\* non-empty domain and a non-empty MAC address.
C9_SuccessMeansValidated ==
    (dpc = "decoded" /\ res.err = NoError) =>
        /\ res.s.Name # <<>>
        /\ Field(res.s, "Domain") # <<>>
        /\ res.s.MACAddr # <<>>

(***************************************************************************)
(* Spec: main() from the environment to the final wait                     *)
(***************************************************************************)
MaxServices == 2

MacText2 == <<"0", "a", ":", "5", "5", ":", "4", "4", ":", "3", "3", ":", "2", "2", ":", "0", "2">>
\* 'p@d: { addr: 0a:55:44:33:22:11 }', 'p@d: { addr: 0a:55:44:33:22:02; vlan: 5 }',
\* 'qq@d: { addr: 0A-55-44-33-22-1F }', 'p@d: { foo: bar }'
EnvA == WellFormed(<<"p">>, <<"d">>, MacText)
EnvB ==
    <<"p", "@", "d", ":", " ", "{">> \o AddrField(MacText2) \o <<";">>
        \o VlanField(<<"5">>) \o <<" ", "}">>
EnvC == WellFormed(<<"q", "q">>, <<"d">>, MacTextDash)
EnvBad == <<"p", "@", "d", ":", " ", "{">> \o FooField \o <<"}">>
EnvTexts == { EnvA, EnvB, EnvC, EnvBad }
EnvLists == UNION { [1..n -> EnvTexts] : n \in 0..MaxServices }

\* envconfig.Process on the field of type []ServiceConfig: each descriptor is
\* decoded into a fresh element, in order; the first error is returned
RECURSIVE ProcessServices(_, _)
ProcessNext(rest, services, r) ==
    IF r.err # NoError
    THEN [err |-> [kind |-> "cannot process envconfig nse", cause |-> r.err],
          services |-> services]
    ELSE ProcessServices(rest, Append(services, r.s))
ProcessServices(descriptors, services) ==
    IF descriptors = <<>> THEN [err |-> NoError, services |-> services]
    ELSE ProcessNext(Tail(descriptors), services, UnmarshalBinary(Head(descriptors)))

\* a Process that drops the descriptors it cannot decode
RECURSIVE ProcessSkipping(_)
ProcessSkipping(e) ==
    IF e = <<>> THEN [err |-> NoError, services |-> <<>>]
    ELSE [err |-> NoError,
          services |-> (IF UnmarshalBinary(Head(e)).err # NoError THEN <<>>
                        ELSE <<UnmarshalBinary(Head(e)).s>>)
                       \o ProcessSkipping(Tail(e)).services]

\* (c *Config) Process(): [err, services]
Process(e) == ProcessServices(e, <<>>)

\* an assignment that keeps the entry a name already has
AssignIfAbsent(m, service) ==
    [k \in (DOMAIN m) \cup {service.Name} |->
        IF k \in DOMAIN m THEN m[k]
        ELSE [macAddr |-> service.MACAddr, vlanTag |-> service.VLANTag]]

\* s.entries[service.Name] = &entry{macAddr: service.MACAddr, vlanTag: service.VLANTag}
Assign(m, service) ==
    [k \in (DOMAIN m) \cup {service.Name} |->
        IF k = service.Name
        THEN [macAddr |-> service.MACAddr, vlanTag |-> service.VLANTag]
        ELSE m[k]]

RECURSIVE NewServerLoop(_, _)
NewServerLoop(services, m) ==
    IF services = <<>> THEN m
    ELSE NewServerLoop(Tail(services), Assign(m, Head(services)))

\* NewServer(cfg): the entries of the new mapServer
NewServer(services) == NewServerLoop(services, <<>>)

Alive == mpc \notin {"off", "fatal", "done"}

InitMain ==
    /\ env \in EnvLists
    /\ registerService \in BOOLEAN
    /\ mpc = "phase1"
    /\ cfg = Nil
    /\ entries = Nil
    /\ installed = FALSE
    /\ listening = FALSE
    /\ errCh = 0
    /\ chClosed = FALSE
    /\ served = FALSE
    /\ gpc = "none"
    /\ ctxDone = FALSE
    /\ nsRegistered = <<>>
    /\ nseRegistered = FALSE
    /\ ParkDecode /\ ParkServe

\* phase 1: cfg.Process() and logrus.ParseLevel(cfg.LogLevel); Fatal on either error
Phase1 ==
    /\ mpc = "phase1"
    /\ \E r \in {Process(env)} :
           IF r.err # NoError
           THEN mpc' = "fatal" /\ cfg' = cfg
           ELSE \E levelOK \in BOOLEAN :
                    /\ cfg' = r.services
                    /\ mpc' = IF levelOK THEN "phase2" ELSE "fatal"
    /\ UNCHANGED <<env, registerService, entries, installed, listening, errCh, chClosed, served, gpc, ctxDone,
                   nsRegistered, nseRegistered, decodeVars, serveVars>>

\* phase 2: workloadapi.NewX509Source and GetX509SVID; Fatal on error
Phase2 ==
    /\ mpc = "phase2"
    /\ \E ok \in BOOLEAN : mpc' = IF ok THEN "phase3" ELSE "fatal"
    /\ UNCHANGED <<env, registerService, cfg, entries, installed, listening, errCh, chClosed, served, gpc, ctxDone,
                   nsRegistered, nseRegistered, decodeVars, serveVars>>

\* phase 3: endpoint.NewServer(... mechanisms.NewServer({noop: mapserver.NewServer(cfg)}))
Phase3 ==
    /\ mpc = "phase3"
    /\ entries' = NewServer(cfg)
    /\ installed' = TRUE
    /\ mpc' = "phase4"
    /\ UNCHANGED <<env, registerService, cfg, listening, errCh, chClosed, served, gpc, ctxDone,
                   nsRegistered, nseRegistered, decodeVars, serveVars>>

\* phase 4: grpc.NewServer, Register, TempDir (Fatal on error), ListenAndServe
Phase4 ==
    /\ mpc = "phase4"
    /\ \E tmpOK \in BOOLEAN :
        IF tmpOK THEN listening' = TRUE /\ mpc' = "exitOnErr"
        ELSE listening' = listening /\ mpc' = "fatal"
    /\ UNCHANGED <<env, registerService, cfg, entries, installed, errCh, chClosed, served, gpc, ctxDone,
                   nsRegistered, nseRegistered, decodeVars, serveVars>>

\* the gRPC server fails (to listen, or while serving) and sends its error
ServeError ==
    /\ Alive /\ listening /\ ~served /\ ~chClosed
    /\ errCh' = errCh + 1
    /\ served' = TRUE
    /\ UNCHANGED <<env, registerService, mpc, cfg, entries, installed, listening, chClosed, gpc, ctxDone,
                   nsRegistered, nseRegistered, decodeVars, serveVars>>

\* the server stopped by the cancelled context closes srvErrCh without an
\* error (a receive on the closed channel yields nil at once)
ServeStop ==
    /\ Alive /\ listening /\ ctxDone /\ ~served /\ ~chClosed
    /\ chClosed' = TRUE
    /\ UNCHANGED <<env, registerService, mpc, cfg, entries, installed, listening, errCh, served,
                   gpc, ctxDone, nsRegistered, nseRegistered, decodeVars, serveVars>>

\* exitOnErr: the select receives whatever the channel yields at once (an
\* error, or nil when it is closed) and exits fatally; otherwise the goroutine
\* is started
ExitOnErr ==
    /\ mpc = "exitOnErr"
    /\ IF errCh > 0
       THEN errCh' = errCh - 1 /\ mpc' = "fatal" /\ gpc' = gpc
       ELSE IF chClosed
            THEN errCh' = errCh /\ mpc' = "fatal" /\ gpc' = gpc
            ELSE errCh' = errCh /\ mpc' = "phase5" /\ gpc' = "recv"
    /\ UNCHANGED <<env, registerService, cfg, entries, installed, listening, chClosed, served, ctxDone,
                   nsRegistered, nseRegistered, decodeVars, serveVars>>

\* the goroutine of exitOnErr: err := <-errCh; log
GoroutineRecv ==
    /\ Alive /\ gpc = "recv" /\ (errCh > 0 \/ chClosed)
    /\ errCh' = IF errCh > 0 THEN errCh - 1 ELSE errCh
    /\ gpc' = "cancel"
    /\ UNCHANGED <<env, registerService, mpc, cfg, entries, installed, listening, chClosed, served, ctxDone,
                   nsRegistered, nseRegistered, decodeVars, serveVars>>

\* a goroutine that logs the error and ends without cancel()
GoroutineLogOnly ==
    /\ Alive /\ gpc = "cancel"
    /\ gpc' = "end"
    /\ UNCHANGED <<env, registerService, mpc, cfg, entries, installed, listening, errCh, chClosed,
                   served, ctxDone, nsRegistered, nseRegistered, decodeVars, serveVars>>

\* the goroutine of exitOnErr: cancel()
GoroutineCancel ==
    /\ Alive /\ gpc = "cancel"
    /\ ctxDone' = TRUE
    /\ gpc' = "end"
    /\ UNCHANGED <<env, registerService, mpc, cfg, entries, installed, listening, errCh, chClosed, served,
                   nsRegistered, nseRegistered, decodeVars, serveVars>>

\* signal.NotifyContext: SIGINT, SIGHUP, SIGTERM or SIGQUIT cancels the context
Signal ==
    /\ Alive /\ ~ctxDone
    /\ ctxDone' = TRUE
    /\ UNCHANGED <<env, registerService, mpc, cfg, entries, installed, listening, errCh, chClosed, served, gpc,
                   nsRegistered, nseRegistered, decodeVars, serveVars>>

\* phase 5, the loop: nsRegistryClient.Register for cfg.Services[i]; Fatal on error
RegisterNS ==
    /\ mpc = "phase5"
    /\ Len(nsRegistered) < Len(cfg)
    /\ nsRegistered' = Append(nsRegistered, cfg[Len(nsRegistered) + 1].Name)
    /\ \E ok \in BOOLEAN : mpc' = IF ok THEN "phase5" ELSE "fatal"
    /\ UNCHANGED <<env, registerService, cfg, entries, installed, listening, errCh, chClosed, served, gpc, ctxDone,
                   nseRegistered, decodeVars, serveVars>>

\* phase 5, after the loop: nseRegistryClient.Register; Fatal on error
RegisterNSE ==
    /\ mpc = "phase5"
    /\ Len(nsRegistered) = Len(cfg)
    /\ nseRegistered' = TRUE
    /\ \E ok \in BOOLEAN : mpc' = IF ok THEN "wait" ELSE "fatal"
    /\ UNCHANGED <<env, registerService, cfg, entries, installed, listening, errCh, chClosed, served, gpc, ctxDone,
                   nsRegistered, decodeVars, serveVars>>

\* <-ctx.Done(), then main returns
WaitExit ==
    /\ mpc = "wait"
    /\ ctxDone
    /\ mpc' = "done"
    /\ UNCHANGED <<env, registerService, cfg, entries, installed, listening, errCh, chClosed, served, gpc, ctxDone,
                   nsRegistered, nseRegistered, decodeVars, serveVars>>

NextMain ==
    \/ Phase1 \/ Phase2 \/ Phase3 \/ Phase4 \/ ServeError \/ ServeStop \/ ExitOnErr
    \/ GoroutineRecv \/ GoroutineCancel \/ Signal \/ RegisterNS \/ RegisterNSE
    \/ WaitExit

Init == InitMain
Next == NextMain
Spec == Init /\ [][Next]_vars

\* Scheduling: a runnable goroutine is eventually run (GoroutineRecv,
\* GoroutineCancel), a receive on a closed Done channel returns (WaitExit),
\* and a registry call made with the cancelled context returns
Fairness ==
    /\ WF_vars(GoroutineRecv)
    /\ WF_vars(GoroutineCancel)
    /\ WF_vars(WaitExit)
    /\ WF_vars(ctxDone /\ RegisterNS)
    /\ WF_vars(ctxDone /\ RegisterNSE)
SpecLive == Init /\ [][Next]_vars /\ Fairness

(***************************************************************************)
(* Claims about start-up (Spec)                                            *)
(***************************************************************************)
ServiceNames(services) == { services[i].Name : i \in DOMAIN services }
LastOccurrence(services, n) ==
    CHOOSE i \in DOMAIN services :
        services[i].Name = n /\ \A j \in DOMAIN services : j > i => services[j].Name # n

\* C6: the table NewServer builds has exactly one entry per distinct service
\* name of the list, holding the MAC and VLAN of the name's last occurrence.
C6_LastOccurrenceWins ==
    installed =>
        /\ DOMAIN entries = ServiceNames(cfg)
        /\ Cardinality(DOMAIN entries) = Cardinality(ServiceNames(cfg))
        /\ \A n \in ServiceNames(cfg) :
            LET last == cfg[LastOccurrence(cfg, n)]
            IN  entries[n] = [macAddr |-> last.MACAddr, vlanTag |-> last.VLANTag]

\* a table was built from a list that names one service twice, with different MACs
C6_Witness ==
    /\ installed
    /\ \E i, j \in DOMAIN cfg :
        i < j /\ cfg[i].Name = cfg[j].Name /\ cfg[i].MACAddr # cfg[j].MACAddr

DecodeFails(e) == \E i \in DOMAIN e : UnmarshalBinary(e[i]).err # NoError

\* C10: if decoding fails for any descriptor of the configured list, the
\* process aborts in the configuration phase: no table is built, the map
\* server is never installed, the gRPC server never listens and nothing is
\* registered.
C10_DecodeFailureAborts ==
    (mpc # "off" /\ DecodeFails(env)) =>
        /\ mpc \in {"phase1", "fatal"}
        /\ entries = Nil
        /\ ~installed
        /\ ~listening
        /\ nsRegistered = <<>>
        /\ ~nseRegistered

\* the process has aborted on a list whose first descriptor is valid and
\* whose second is not
C10_Witness ==
    /\ mpc = "fatal"
    /\ Len(env) >= 2
    /\ UnmarshalBinary(env[1]).err = NoError
    /\ UnmarshalBinary(env[2]).err # NoError

(***************************************************************************)
(* SpecServe: Request and Close of the constructed mapServer.  Each call   *)
(* has the connection object gRPC decoded for it; Request is taken one     *)
(* statement at a time so that two calls interleave.                       *)
(***************************************************************************)
\* the network services a client asks for: the two table keys and 'p'
ReqNames == { UnmarshalBinary(EnvA).s.Name, UnmarshalBinary(EnvC).s.Name, <<"p">> }

OldDstMac == <<"f", "f", ":", "f", "f", ":", "f", "f", ":", "f", "f", ":", "f", "f", ":", "f", "f">>
OldSrcMac == <<"0", "2", ":", "0", "0", ":", "0", "0", ":", "0", "0", ":", "0", "0", ":", "0", "1">>

\* new(networkservice.ConnectionContext), new(networkservice.EthernetContext)
NewConnectionContext == [IpContext |-> "", EthernetContext |-> Nil]
NewEthernetContext == [SrcMac |-> <<>>, DstMac |-> <<>>, VlanTag |-> 0]

ContextInputs ==
    { Nil,
      [IpContext |-> "ip0", EthernetContext |-> Nil],
      [IpContext |-> "ip0",
       EthernetContext |-> [SrcMac |-> OldSrcMac, DstMac |-> OldDstMac, VlanTag |-> 7]] }
ConnInputs ==
    { Nil } \cup { [NetworkService |-> n, Context |-> c] : n \in ReqNames, c \in ContextInputs }

\* the nil-safe getters of the generated API
GetNetworkService(c) == IF c = Nil THEN <<>> ELSE c.NetworkService
GetContext(c) == IF c = Nil THEN Nil ELSE c.Context
GetEthernetContext(c) == IF c = Nil THEN Nil ELSE c.EthernetContext

NotSupported(name) == [err |-> [kind |-> "network service is not supported", text |-> name]]
NextResults == { [err |-> NoError], [err |-> [kind |-> "next stage failed"]] }

\* memory locations: a field of p's connection object, the map, a field of an entry
ConnLoc(p, f) == [obj |-> "conn", of |-> <<p>>, field |-> f]
MapLoc == [obj |-> "mapServer", of |-> <<>>, field |-> "entries"]
EntryLoc(name, f) == [obj |-> "entry", of |-> name, field |-> f]

InFlight(q) == rpc[q] \notin {"off", "idle", "returned"}
Serving == mpc = "wait" /\ listening

InitServe ==
    /\ \E e \in EnvLists : \E r \in {Process(e)} :
        /\ r.err = NoError
        /\ env = e
        /\ cfg = r.services
        /\ entries = NewServer(r.services)
        /\ nsRegistered = [i \in DOMAIN e |-> r.services[i].Name]
    /\ registerService = TRUE
    /\ mpc = "wait"
    /\ installed = TRUE
    /\ listening = TRUE
    /\ errCh = 0 /\ chClosed = FALSE /\ served = FALSE /\ gpc = "recv" /\ ctxDone = FALSE
    /\ nseRegistered = TRUE
    /\ rpc = [p \in Procs |-> "idle"]
    /\ op = [p \in Procs |-> "none"]
    /\ conn = [p \in Procs |-> Nil]
    /\ conn0 = [p \in Procs |-> Nil]
    /\ connAtNext = [p \in Procs |-> Nil]
    /\ entry = [p \in Procs |-> Nil]
    /\ result = [p \in Procs |-> Nil]
    /\ nextResult = [p \in Procs |-> Nil]
    /\ nextCalls = [p \in Procs |-> [Request |-> 0, Close |-> 0]]
    /\ reads = [p \in Procs |-> {}]
    /\ writes = [p \in Procs |-> {}]
    /\ concurrent = [p \in Procs |-> {}]
    /\ ParkDecode

\* p's call begins: the calls now in flight run concurrently with it
Overlap(p) ==
    [q \in Procs |->
        IF q = p THEN { r \in Procs \ {p} : InFlight(r) }
        ELSE IF InFlight(q) THEN concurrent[q] \cup {p}
        ELSE concurrent[q]]

\* gRPC dispatches a NetworkServiceRequest to Request
BeginRequest(p) ==
    /\ Serving /\ rpc[p] = "idle"
    /\ \E c \in ConnInputs :
        /\ conn' = [conn EXCEPT ![p] = c]
        /\ conn0' = [conn0 EXCEPT ![p] = c]
    /\ op' = [op EXCEPT ![p] = "Request"]
    /\ rpc' = [rpc EXCEPT ![p] = "Request_60"]
    /\ concurrent' = Overlap(p)
    /\ UNCHANGED <<connAtNext, entry, result, nextResult, nextCalls, reads, writes,
                   mainVars, decodeVars>>

\* a lookup that also stores a default entry for a name it does not find
LookupInserting(p) ==
    /\ rpc[p] = "Request_60"
    /\ LET name == GetNetworkService(conn[p])
       IN  /\ reads' = [reads EXCEPT ![p] = @ \cup {ConnLoc(p, "NetworkService"), MapLoc}]
           /\ IF name \in DOMAIN entries
              THEN /\ entry' = [entry EXCEPT ![p] = [key |-> name]]
                   /\ rpc' = [rpc EXCEPT ![p] = "Request_67"]
                   /\ UNCHANGED <<result, entries>>
              ELSE /\ result' = [result EXCEPT ![p] = NotSupported(name)]
                   /\ rpc' = [rpc EXCEPT ![p] = "returned"]
                   /\ entries' = Assign(entries, [Name |-> name, MACAddr |-> <<>>, VLANTag |-> 0])
                   /\ UNCHANGED entry
    /\ UNCHANGED <<op, conn, conn0, connAtNext, nextResult, nextCalls, writes, concurrent,
                   env, registerService, mpc, cfg, installed, listening, errCh, chClosed, served,
                   gpc, ctxDone, nsRegistered, nseRegistered, decodeVars>>

\* a lookup that stores the entry it found back into the map
LookupTouching(p) ==
    /\ rpc[p] = "Request_60"
    /\ LET name == GetNetworkService(conn[p])
       IN  /\ reads' = [reads EXCEPT ![p] = @ \cup {ConnLoc(p, "NetworkService"), MapLoc}]
           /\ IF name \in DOMAIN entries
              THEN /\ entry' = [entry EXCEPT ![p] = [key |-> name]]
                   /\ rpc' = [rpc EXCEPT ![p] = "Request_67"]
                   /\ writes' = [writes EXCEPT ![p] = @ \cup {MapLoc}]
                   /\ UNCHANGED result
              ELSE /\ result' = [result EXCEPT ![p] = NotSupported(name)]
                   /\ rpc' = [rpc EXCEPT ![p] = "returned"]
                   /\ UNCHANGED <<entry, writes>>
    /\ UNCHANGED <<op, conn, conn0, connAtNext, nextResult, nextCalls, concurrent,
                   mainVars, decodeVars>>

\* a lookup that allocates the connection's context before it consults the map
LookupAllocating(p) ==
    /\ rpc[p] = "Request_60"
    /\ LET name == GetNetworkService(conn[p])
       IN  /\ reads' = [reads EXCEPT ![p] = @ \cup {ConnLoc(p, "NetworkService"), MapLoc}]
           /\ conn' = [conn EXCEPT ![p] =
                  IF conn[p] # Nil /\ conn[p].Context = Nil
                  THEN [@ EXCEPT !.Context = NewConnectionContext] ELSE @]
           /\ IF name \in DOMAIN entries
              THEN /\ entry' = [entry EXCEPT ![p] = [key |-> name]]
                   /\ rpc' = [rpc EXCEPT ![p] = "Request_67"]
                   /\ UNCHANGED result
              ELSE /\ result' = [result EXCEPT ![p] = NotSupported(name)]
                   /\ rpc' = [rpc EXCEPT ![p] = "returned"]
                   /\ UNCHANGED entry
    /\ UNCHANGED <<op, conn0, connAtNext, nextResult, nextCalls, writes, concurrent,
                   mainVars, decodeVars>>

\* conn := request.GetConnection(); entry, ok := s.entries[conn.GetNetworkService()];
\* if !ok { return nil, errors.Errorf("network service is not supported: %s", ...) }
Lookup(p) ==
    /\ rpc[p] = "Request_60"
    /\ LET name == GetNetworkService(conn[p])
       IN  /\ reads' = [reads EXCEPT ![p] = @ \cup {ConnLoc(p, "NetworkService"), MapLoc}]
           /\ IF name \in DOMAIN entries
              THEN /\ entry' = [entry EXCEPT ![p] = [key |-> name]]
                   /\ rpc' = [rpc EXCEPT ![p] = "Request_67"]
                   /\ UNCHANGED result
              ELSE /\ result' = [result EXCEPT ![p] = NotSupported(name)]
                   /\ rpc' = [rpc EXCEPT ![p] = "returned"]
                   /\ UNCHANGED entry
    /\ UNCHANGED <<op, conn, conn0, connAtNext, nextResult, nextCalls, writes, concurrent,
                   mainVars, decodeVars>>

\* if conn.GetContext() == nil { conn.Context = new(networkservice.ConnectionContext) }
\* (a nil conn would make the assignment panic)
EnsureContext(p) ==
    /\ rpc[p] = "Request_67"
    /\ reads' = [reads EXCEPT ![p] = @ \cup {ConnLoc(p, "Context")}]
    /\ IF GetContext(conn[p]) # Nil
       THEN /\ rpc' = [rpc EXCEPT ![p] = "Request_70"]
            /\ UNCHANGED <<conn, writes>>
       ELSE IF conn[p] = Nil
       THEN /\ rpc' = [rpc EXCEPT ![p] = "panic"]
            /\ UNCHANGED <<conn, writes>>
       ELSE /\ conn' = [conn EXCEPT ![p].Context = NewConnectionContext]
            /\ writes' = [writes EXCEPT ![p] = @ \cup {ConnLoc(p, "Context")}]
            /\ rpc' = [rpc EXCEPT ![p] = "Request_70"]
    /\ UNCHANGED <<op, conn0, connAtNext, entry, result, nextResult, nextCalls,
                   concurrent, mainVars, decodeVars>>

\* an EnsureEthernet that allocates a new Ethernet context whatever is there
EnsureEthernetAlways(p) ==
    /\ rpc[p] = "Request_70"
    /\ reads' = [reads EXCEPT ![p] = @ \cup {ConnLoc(p, "Context"), ConnLoc(p, "EthernetContext")}]
    /\ conn' = [conn EXCEPT ![p].Context.EthernetContext = NewEthernetContext]
    /\ writes' = [writes EXCEPT ![p] = @ \cup {ConnLoc(p, "EthernetContext")}]
    /\ rpc' = [rpc EXCEPT ![p] = "Request_73"]
    /\ UNCHANGED <<op, conn0, connAtNext, entry, result, nextResult, nextCalls,
                   concurrent, mainVars, decodeVars>>

\* if conn.GetContext().GetEthernetContext() == nil {
\*     conn.GetContext().EthernetContext = new(networkservice.EthernetContext) }
EnsureEthernet(p) ==
    /\ rpc[p] = "Request_70"
    /\ reads' = [reads EXCEPT ![p] = @ \cup {ConnLoc(p, "Context"), ConnLoc(p, "EthernetContext")}]
    /\ IF GetEthernetContext(GetContext(conn[p])) # Nil
       THEN UNCHANGED <<conn, writes>>
       ELSE /\ conn' = [conn EXCEPT ![p].Context.EthernetContext = NewEthernetContext]
            /\ writes' = [writes EXCEPT ![p] = @ \cup {ConnLoc(p, "EthernetContext")}]
    /\ rpc' = [rpc EXCEPT ![p] = "Request_73"]
    /\ UNCHANGED <<op, conn0, connAtNext, entry, result, nextResult, nextCalls,
                   concurrent, mainVars, decodeVars>>

\* ethernetContext := conn.GetContext().GetEthernetContext()
\* ethernetContext.DstMac = entry.macAddr.String()
SetDstMac(p) ==
    /\ rpc[p] = "Request_73"
    /\ reads' = [reads EXCEPT ![p] = @ \cup
                    {ConnLoc(p, "Context"), ConnLoc(p, "EthernetContext"),
                     EntryLoc(entry[p].key, "macAddr")}]
    /\ conn' = [conn EXCEPT ![p].Context.EthernetContext.DstMac =
                    String(entries[entry[p].key].macAddr)]
    /\ writes' = [writes EXCEPT ![p] = @ \cup {ConnLoc(p, "DstMac")}]
    /\ rpc' = [rpc EXCEPT ![p] = "Request_76"]
    /\ UNCHANGED <<op, conn0, connAtNext, entry, result, nextResult, nextCalls,
                   concurrent, mainVars, decodeVars>>

\* ethernetContext.VlanTag = entry.vlanTag
SetVlanTag(p) ==
    /\ rpc[p] = "Request_76"
    /\ reads' = [reads EXCEPT ![p] = @ \cup {EntryLoc(entry[p].key, "vlanTag")}]
    /\ conn' = [conn EXCEPT ![p].Context.EthernetContext.VlanTag =
                    entries[entry[p].key].vlanTag]
    /\ writes' = [writes EXCEPT ![p] = @ \cup {ConnLoc(p, "VlanTag")}]
    /\ rpc' = [rpc EXCEPT ![p] = "Request_78"]
    /\ UNCHANGED <<op, conn0, connAtNext, entry, result, nextResult, nextCalls,
                   concurrent, mainVars, decodeVars>>

\* return next.Server(ctx).Request(ctx, request)
CallNext(p) ==
    /\ rpc[p] = "Request_78"
    /\ \E r \in NextResults :
        /\ nextResult' = [nextResult EXCEPT ![p] = r]
        /\ result' = [result EXCEPT ![p] = r]
    /\ nextCalls' = [nextCalls EXCEPT ![p].Request = @ + 1]
    /\ connAtNext' = [connAtNext EXCEPT ![p] = conn[p]]
    /\ rpc' = [rpc EXCEPT ![p] = "returned"]
    /\ UNCHANGED <<op, conn, conn0, entry, reads, writes, concurrent,
                   mainVars, decodeVars>>

\* a Close that rejects the connections of services it does not know
CloseChecking(p) ==
    /\ Serving /\ rpc[p] = "idle"
    /\ \E c \in ConnInputs, r \in NextResults :
        /\ conn' = [conn EXCEPT ![p] = c]
        /\ conn0' = [conn0 EXCEPT ![p] = c]
        /\ IF GetNetworkService(c) \in DOMAIN entries
           THEN /\ nextResult' = [nextResult EXCEPT ![p] = r]
                /\ result' = [result EXCEPT ![p] = r]
                /\ nextCalls' = [nextCalls EXCEPT ![p].Close = @ + 1]
           ELSE /\ result' = [result EXCEPT ![p] = NotSupported(GetNetworkService(c))]
                /\ UNCHANGED <<nextResult, nextCalls>>
    /\ op' = [op EXCEPT ![p] = "Close"]
    /\ rpc' = [rpc EXCEPT ![p] = "returned"]
    /\ concurrent' = Overlap(p)
    /\ UNCHANGED <<connAtNext, entry, reads, writes, mainVars, decodeVars>>

\* Close: return next.Server(ctx).Close(ctx, conn)
Close(p) ==
    /\ Serving /\ rpc[p] = "idle"
    /\ \E c \in ConnInputs, r \in NextResults :
        /\ conn' = [conn EXCEPT ![p] = c]
        /\ conn0' = [conn0 EXCEPT ![p] = c]
        /\ nextResult' = [nextResult EXCEPT ![p] = r]
        /\ result' = [result EXCEPT ![p] = r]
    /\ nextCalls' = [nextCalls EXCEPT ![p].Close = @ + 1]
    /\ op' = [op EXCEPT ![p] = "Close"]
    /\ rpc' = [rpc EXCEPT ![p] = "returned"]
    /\ concurrent' = Overlap(p)
    /\ UNCHANGED <<connAtNext, entry, reads, writes, mainVars, decodeVars>>

\* the call's result has gone back to the client; the handler is free again
Return(p) ==
    /\ rpc[p] = "returned"
    /\ rpc' = [rpc EXCEPT ![p] = "idle"]
    /\ op' = [op EXCEPT ![p] = "none"]
    /\ conn' = [conn EXCEPT ![p] = Nil]
    /\ conn0' = [conn0 EXCEPT ![p] = Nil]
    /\ connAtNext' = [connAtNext EXCEPT ![p] = Nil]
    /\ entry' = [entry EXCEPT ![p] = Nil]
    /\ result' = [result EXCEPT ![p] = Nil]
    /\ nextResult' = [nextResult EXCEPT ![p] = Nil]
    /\ nextCalls' = [nextCalls EXCEPT ![p] = [Request |-> 0, Close |-> 0]]
    /\ reads' = [reads EXCEPT ![p] = {}]
    /\ writes' = [writes EXCEPT ![p] = {}]
    /\ concurrent' = [concurrent EXCEPT ![p] = {}]
    /\ UNCHANGED <<mainVars, decodeVars>>

NextServe ==
    \E p \in Procs :
        \/ BeginRequest(p) \/ Lookup(p) \/ EnsureContext(p) \/ EnsureEthernet(p)
        \/ SetDstMac(p) \/ SetVlanTag(p) \/ CallNext(p) \/ Close(p) \/ Return(p)

SpecServe == InitServe /\ [][NextServe]_vars

(***************************************************************************)
(* Claims about the handlers (SpecServe)                                   *)
(***************************************************************************)
Requested(p) == GetNetworkService(conn0[p])

\* the textual form of the MAC addresses the configured descriptors hold
MacTextOf(bytes) ==
    CASE bytes = <<10, 85, 68, 51, 34, 17>> -> MacText
      [] bytes = <<10, 85, 68, 51, 34, 2>> -> MacText2
      [] bytes = <<10, 85, 68, 51, 34, 31>> ->
            <<"0", "a", ":", "5", "5", ":", "4", "4", ":", "3", "3", ":", "2", "2", ":", "1", "f">>

\* the connection c0 with entry e applied: what is there is kept, what is
\* absent is allocated, DstMac and VlanTag are those of e
Stamped(c0, e) ==
    LET ctx0 == IF c0.Context = Nil THEN NewConnectionContext ELSE c0.Context
        eth0 == IF ctx0.EthernetContext = Nil THEN NewEthernetContext
                ELSE ctx0.EthernetContext
    IN  [NetworkService |-> c0.NetworkService,
         Context |-> [IpContext |-> ctx0.IpContext,
                      EthernetContext |-> [SrcMac |-> eth0.SrcMac,
                                           DstMac |-> MacTextOf(e.macAddr),
                                           VlanTag |-> e.vlanTag]]]

\* C1: a Request for a service that is no key of the table returns 'network
\* service is not supported' naming the service, never invokes the next
\* stage and leaves the connection as it was.
C1_MissIsRejected ==
    \A p \in Procs :
        (op[p] = "Request" /\ Requested(p) \notin DOMAIN entries) =>
            /\ rpc[p] \in {"Request_60", "returned"}
            /\ nextCalls[p] = [Request |-> 0, Close |-> 0]
            /\ conn[p] = conn0[p]
            /\ writes[p] = {}
            /\ rpc[p] = "returned" =>
                /\ result[p].err.kind = "network service is not supported"
                /\ result[p].err.text = Requested(p)

\* a rejected Request whose connection had no context
C1_Witness ==
    \E p \in Procs :
        /\ op[p] = "Request" /\ rpc[p] = "returned"
        /\ Requested(p) \notin DOMAIN entries
        /\ conn0[p] # Nil /\ conn0[p].Context = Nil
        /\ result[p] = NotSupported(<<"p">>)

\* C2: a Request for a key of the table allocates the context and the
\* Ethernet context only if absent, sets DstMac to the text of the entry's
\* MAC and VlanTag to the entry's VLAN, and only then invokes the next stage,
\* once, returning its result unchanged.
C2_HitStampsThenForwards ==
    \A p \in Procs :
        (op[p] = "Request" /\ Requested(p) \in DOMAIN entries) =>
            /\ nextCalls[p].Close = 0
            /\ rpc[p] # "panic"
            /\ rpc[p] # "returned" => nextCalls[p].Request = 0
            /\ rpc[p] = "returned" =>
                /\ nextCalls[p].Request = 1
                /\ connAtNext[p] = Stamped(conn0[p], entries[Requested(p)])
                /\ conn[p] = connAtNext[p]
                /\ result[p] \in NextResults
                /\ result[p] = nextResult[p]

\* a Request that found its service, kept the Ethernet context the connection
\* came with and returned the next stage's error
C2_Witness ==
    \E p \in Procs :
        /\ op[p] = "Request" /\ rpc[p] = "returned"
        /\ Requested(p) \in DOMAIN entries
        /\ conn0[p].Context # Nil /\ conn0[p].Context.EthernetContext # Nil
        /\ conn[p].Context.EthernetContext.SrcMac = OldSrcMac
        /\ conn[p].Context.EthernetContext.DstMac # OldDstMac
        /\ result[p].err # NoError

\* C3: Close, for any connection, invokes the next stage's Close exactly once
\* and returns its result, and changes neither the table nor the connection.
C3_CloseForwards ==
    [][\A p \in Procs :
        (rpc[p] = "idle" /\ rpc'[p] = "returned") =>
            /\ op'[p] = "Close"
            /\ nextCalls'[p] = [Request |-> 0, Close |-> 1]
            /\ result'[p] \in NextResults
            /\ result'[p] = nextResult'[p]
            /\ conn'[p] = conn0'[p]
            /\ entries' = entries]_vars

\* a Close for a service the table does not hold, returning the next stage's success
C3_Witness ==
    \E p \in Procs :
        /\ op[p] = "Close" /\ rpc[p] = "returned"
        /\ Requested(p) \notin DOMAIN entries
        /\ nextCalls[p].Close = 1
        /\ result[p].err = NoError

\* C4: after NewServer has returned the table is constant: its keys and each
\* key's MAC and VLAN are those NewServer built, whatever calls are made.
C4_TableIsConstant ==
    Serving =>
        /\ entries = NewServer(cfg)
        /\ DOMAIN entries = ServiceNames(cfg)

\* a hit and a miss have both been answered, on a table of two services
C4_Witness ==
    /\ Cardinality(DOMAIN entries) = 2
    /\ \E p, q \in Procs :
        /\ op[p] = "Request" /\ rpc[p] = "returned" /\ Requested(p) \in DOMAIN entries
        /\ op[q] = "Request" /\ rpc[q] = "returned" /\ Requested(q) \notin DOMAIN entries

RanTogether(p, q) ==
    /\ p # q /\ q \in concurrent[p]
    /\ op[p] = "Request" /\ op[q] = "Request"
    /\ Requested(p) \in DOMAIN entries /\ Requested(q) \in DOMAIN entries
    /\ Requested(p) # Requested(q)

\* C5: two concurrent Requests for different services of the table, on
\* their own connection objects: neither is rejected (each returns what its
\* next stage returns), each connection gets the MAC and VLAN of its own
\* service, and no step of one writes a location the other reads or writes.
C5_ConcurrentRequestsIndependent ==
    \A p, q \in Procs :
        RanTogether(p, q) =>
            /\ writes[p] \cap (reads[q] \cup writes[q]) = {}
            /\ rpc[p] = "returned" =>
                /\ result[p] = nextResult[p]
                /\ result[p] \in NextResults
                /\ conn[p] = Stamped(conn0[p], entries[Requested(p)])

\* two overlapping Requests for different services have both succeeded
C5_Witness ==
    \E p, q \in Procs :
        /\ RanTogether(p, q)
        /\ rpc[p] = "returned" /\ rpc[q] = "returned"
        /\ result[p].err = NoError /\ result[q].err = NoError
        /\ conn[p].Context.EthernetContext.DstMac # conn[q].Context.EthernetContext.DstMac

(***************************************************************************)
(* Claims about registration (Spec)                                        *)
(***************************************************************************)
\* C11: network services are registered on startup if and only if
\* RegisterService is true: when it is false, startup completes without any
\* network-service Register call.
C11_RegisterOnlyWhenAsked ==
    /\ (mpc # "off" /\ ~registerService) => nsRegistered = <<>>
    /\ (mpc \in {"wait", "done"} /\ registerService) =>
            nsRegistered = [i \in DOMAIN cfg |-> cfg[i].Name]

(***************************************************************************)
(* Claims about the field list (SpecDecode)                                *)
(***************************************************************************)
RecognisedPrefixes ==
    { addrPrefix, vlanPrefix, <<"l", "a", "b", "e", "l", "s", ":">>,
      <<"p", "a", "y", "l", "o", "a", "d", ":">> }
Recognised(seg) == \E pre \in RecognisedPrefixes : HasPrefix(seg, pre)

BracesPresent(t) ==
    /\ Index(t, "{") > 0
    /\ \E i \in 1..Len(t) : i > Index(t, "{") /\ t[i] = "}"

\* the trimmed ';'-separated segments between the first '{' and the next '}'
Segments(t) ==
    LET body == Split(Split(t, "{")[2], "}")[1]
        parts == Split(body, ";")
    IN  [i \in DOMAIN parts |-> TrimSpace(parts[i])]

ValueParses(seg) ==
    /\ HasPrefix(seg, addrPrefix) => ParseMAC(trimPrefix(seg, addrPrefix)).err = NoError
    /\ HasPrefix(seg, vlanPrefix) => ParseInt(trimPrefix(seg, vlanPrefix)).err = NoError

\* C12: with the braces present and every field value parsing, decoding
\* fails with 'invalid format' citing the input if and only if some
\* non-empty trimmed segment has none of the prefixes 'addr:', 'vlan:',
\* 'labels:', 'payload:'; empty segments are skipped.
C12_InvalidFormatIffUnknownPrefix ==
    (/\ dpc = "decoded"
     /\ BracesPresent(text)
     /\ \A i \in DOMAIN Segments(text) : ValueParses(Segments(text)[i])) =>
        ((res.err = InvalidFormat(text)) <=>
            \E i \in DOMAIN Segments(text) :
                Segments(text)[i] # <<>> /\ ~Recognised(Segments(text)[i]))

(***************************************************************************)
(* Claims about exitOnErr (SpecLive)                                       *)
(***************************************************************************)
Exited == mpc \in {"fatal", "done"}
Delivered == gpc = "recv" /\ errCh > 0

\* C13: once exitOnErr is called, (a) an error already on the channel makes
\* the process exit fatally with nothing registered; (b) an error delivered
\* later is received by the goroutine, which cancels the context, so that
\* main's wait on ctx.Done() returns and the process terminates, unless the
\* process has exited fatally before; main returns only on a cancelled
\* context; (c) without a delivered error the goroutine's cancel() never
\* changes the context
C13_ExitOnErr ==
    /\ [][(mpc = "exitOnErr" /\ errCh > 0 /\ mpc' # mpc) =>
            (mpc' = "fatal" /\ nsRegistered' = <<>> /\ ~nseRegistered')]_vars
    /\ Delivered ~> (gpc = "end" \/ Exited)
    /\ Delivered ~> Exited
    /\ [](mpc = "done" => ctxDone)
    /\ [](gpc = "end" => ctxDone)
    /\ [][(gpc = "cancel" /\ gpc' = "end" /\ ~served) => ctxDone' = ctxDone]_vars
C13_Witness == mpc = "done" /\ gpc = "end" /\ served /\ errCh = 0 /\ ~chClosed


=============================================================================
